---------------------------- MODULE Spec2Model ----------------------------
(***************************************************************************)
(* Model of the SuperDARN tdiff calibration lookup of davitpy:             *)
(*   radFreqBands (rad_freqbands_new.py): time-versioned frequency bands   *)
(*   radTdiff     (rad_tdiff.py):         tdiff records and their lookup   *)
(*                                                                         *)
(* One behaviour constructs one object and then queries it.  Python values *)
(* whose type matters (None, int, str) are tagged records; strings are     *)
(* sequences of characters; datetimes are the tuples                       *)
(* <<year, month, day, hour, minute, second, microsecond>>, compared       *)
(* lexicographically as datetime does; numpy arrays and lists are          *)
(* sequences, so index i of the code is position i + 1 of the model.       *)
(***************************************************************************)
EXTENDS Integers, Sequences, FiniteSets, TLC

VARIABLES
    pc,     \* "start"; "radFreqBands" or "radTdiff": the object constructed;
            \* "load_tdiff": radTdiff.__init__ is reading the file;
            \* "raised": the constructor raised
    fb,     \* attributes of the radFreqBands instance
    td,     \* attributes of the radTdiff instance
    ld,     \* arguments and locals of load_tdiff while it runs, and the
            \* lines of the file read so far
    call    \* the last call: operation, arguments, return value, exception

vars == <<pc, fb, td, ld, call>>

-----------------------------------------------------------------------------
(* Python values *)

None == [type |-> "none"]
PyInt(n) == [type |-> "int", val |-> n]
PyStr(s) == [type |-> "str", val |-> s]

\* str.lower() on the letters that occur in the inputs.
UpperToLower ==
    "A" :> "a" @@ "B" :> "b" @@ "C" :> "c" @@ "D" :> "d" @@ "E" :> "e" @@
    "F" :> "f" @@ "G" :> "g" @@ "H" :> "h" @@ "I" :> "i" @@ "J" :> "j" @@
    "K" :> "k" @@ "L" :> "l" @@ "M" :> "m" @@ "N" :> "n" @@ "O" :> "o" @@
    "P" :> "p" @@ "Q" :> "q" @@ "R" :> "r" @@ "S" :> "s" @@ "T" :> "t" @@
    "U" :> "u" @@ "V" :> "v" @@ "W" :> "w" @@ "X" :> "x" @@ "Y" :> "y" @@
    "Z" :> "z"

lower(s) ==
    [i \in DOMAIN s |-> IF s[i] \in DOMAIN UpperToLower THEN UpperToLower[s[i]]
                        ELSE s[i]]

\* datetime comparison
DtLt(a, b) == \E i \in 1..7 : a[i] < b[i] /\ \A j \in 1..(i - 1) : a[j] = b[j]
DtLe(a, b) == a = b \/ DtLt(a, b)

\* The elements of a finite set of integers in ascending order.
RECURSIVE Ascending(_)
Ascending(S) ==
    IF S = {} THEN <<>>
    ELSE LET m == CHOOSE x \in S : \A y \in S : x <= y
         IN  <<m>> \o Ascending(S \ {m})

-----------------------------------------------------------------------------
(* The shipped catalog of rad_freqbands_new.py *)

\* The radar codes, Python strings, as sequences of characters: Code.han is
\* the string 'han'.
Code ==
    [ade |-> <<"a", "d", "e">>, adw |-> <<"a", "d", "w">>,
     bks |-> <<"b", "k", "s">>, fir |-> <<"f", "i", "r">>,
     gbr |-> <<"g", "b", "r">>, hal |-> <<"h", "a", "l">>,
     han |-> <<"h", "a", "n">>, hok |-> <<"h", "o", "k">>,
     inv |-> <<"i", "n", "v">>, kap |-> <<"k", "a", "p">>,
     ker |-> <<"k", "e", "r">>, kod |-> <<"k", "o", "d">>,
     ksr |-> <<"k", "s", "r">>, lyr |-> <<"l", "y", "r">>,
     mcm |-> <<"m", "c", "m">>, pgr |-> <<"p", "g", "r">>,
     pyk |-> <<"p", "y", "k">>, rkn |-> <<"r", "k", "n">>,
     san |-> <<"s", "a", "n">>, sas |-> <<"s", "a", "s">>,
     sch |-> <<"s", "c", "h">>, spe |-> <<"s", "p", "e">>,
     sto |-> <<"s", "t", "o">>, sye |-> <<"s", "y", "e">>,
     sys |-> <<"s", "y", "s">>, tig |-> <<"t", "i", "g">>,
     unw |-> <<"u", "n", "w">>, wal |-> <<"w", "a", "l">>]

\* Effective interval [start, end] of every band-table version.
rad_band_time ==
    Code.gbr :> (0 :> <<<<1995, 1, 1, 0, 0, 0, 0>>, <<3000, 1, 1, 0, 0, 0, 0>>>>) @@
    Code.hal :> (0 :> <<<<1995, 1, 1, 0, 0, 0, 0>>, <<3000, 1, 1, 0, 0, 0, 0>>>>) @@
    Code.han :> (0 :> <<<<1995, 1, 1, 0, 0, 0, 0>>, <<3000, 1, 1, 0, 0, 0, 0>>>>) @@
    Code.kap :> (0 :> <<<<1995, 1, 1, 0, 0, 0, 0>>, <<3000, 1, 1, 0, 0, 0, 0>>>>) @@
    Code.kod :> (0 :> <<<<1995, 1, 1, 0, 0, 0, 0>>, <<2009, 10, 1, 0, 0, 0, 0>>>> @@
            1 :> <<<<2010, 8, 30, 0, 0, 0, 0>>, <<2010, 9, 6, 23, 59, 59, 0>>>> @@
            2 :> <<<<2010, 9, 7, 0, 0, 0, 0>>, <<3000, 1, 1, 0, 0, 0, 0>>>>) @@
    Code.ksr :> (0 :> <<<<1995, 1, 1, 0, 0, 0, 0>>, <<2004, 10, 1, 0, 0, 0, 0>>>> @@
            1 :> <<<<2007, 8, 30, 0, 0, 0, 0>>, <<3000, 1, 1, 0, 0, 0, 0>>>>) @@
    Code.pgr :> (0 :> <<<<1995, 1, 1, 0, 0, 0, 0>>, <<2001, 10, 2, 0, 0, 0, 0>>>> @@
            1 :> <<<<2004, 8, 30, 0, 0, 0, 0>>, <<2004, 10, 1, 0, 0, 0, 0>>>> @@
            2 :> <<<<2007, 8, 30, 0, 0, 0, 0>>, <<2007, 10, 1, 0, 0, 0, 0>>>> @@
            3 :> <<<<2009, 8, 30, 0, 0, 0, 0>>, <<3000, 1, 1, 0, 0, 0, 0>>>>) @@
    Code.pyk :> (0 :> <<<<1995, 1, 1, 0, 0, 0, 0>>, <<3000, 1, 1, 0, 0, 0, 0>>>>) @@
    Code.sas :> (0 :> <<<<1995, 1, 1, 0, 0, 0, 0>>, <<3000, 1, 1, 0, 0, 0, 0>>>>) @@
    Code.sto :> (0 :> <<<<1995, 1, 1, 0, 0, 0, 0>>, <<3000, 1, 1, 0, 0, 0, 0>>>>)

\* Band numbers of every version, in declared order.
rad_band_num ==
    Code.gbr :> (0 :> <<
                0, 1, 2, 3, 4, 5, 6, 7, 8, 9, 10, 11, 12, 13, 14, 15, 16, 17,
                18, 19, 20, 21, 22, 23, 24, 25>>) @@
    Code.hal :> (0 :> <<
                0, 1, 2, 3, 4, 5, 6, 7, 8, 9, 10, 11, 12, 13, 14, 15, 16, 17,
                18, 19, 20, 21, 22, 23, 24, 25, 26, 27, 28, 29, 30, 31, 32,
                33, 34>>) @@
    Code.han :> (0 :> <<
                0, 1, 2, 3, 4, 5, 6, 7, 8, 9, 10, 11, 12, 13, 14>>) @@
    Code.kap :> (0 :> <<
                37, 38, 39, 40, 11, 12, 13, 14, 15, 16, 17, 18, 19, 20, 21,
                22, 23, 24, 25, 26, 27, 28, 29>>) @@
    Code.kod :> (0 :> <<
                0, 1, 2, 3, 4, 5, 6, 7, 8, 9, 10, 11, 12, 13, 14, 15, 16, 17,
                18, 19, 20, 21, 22, 23, 24, 25, 26>> @@
            1 :> <<
                27, 28, 29, 30, 31, 32, 33, 34, 35, 36, 37, 38, 39, 12, 13,
                14, 15, 16, 17, 18, 19, 20, 21, 22, 23, 24, 25, 26>> @@
            2 :> <<
                0, 1, 2, 3, 4, 5, 6, 7, 8, 9, 10, 11, 12, 13, 14, 15, 16, 17,
                18, 19, 20, 21, 22, 23, 24, 25, 26>>) @@
    Code.ksr :> (0 :> <<
                0, 1, 2, 3, 4, 5, 6, 7, 8, 9, 10, 11, 12, 13, 14, 15, 16, 17,
                41, 42, 43, 22, 44, 45, 26, 27, 46, 47, 48, 32, 33, 34, 35, 36>> @@
            1 :> <<
                0, 1, 2, 3, 4, 5, 6, 7, 8, 9, 10, 11, 12, 13, 14, 15, 16, 17,
                18, 19, 20, 21, 22, 23, 24, 25, 26, 27, 28, 29, 30, 31, 32,
                33, 34, 35, 36>>) @@
    Code.pgr :> (0 :> <<
                0, 1, 2, 3, 4, 5, 6, 7, 8, 9, 10, 11, 12, 13, 14, 15, 16, 17,
                18, 19, 20, 21, 22, 23, 24, 25, 26, 27, 28, 29, 30, 31, 32,
                33, 34, 35, 36, 37, 38, 39, 40>> @@
            1 :> <<
                0, 1, 2, 3, 4, 5, 41, 42, 43, 9, 10, 11, 12, 44, 45, 46, 47,
                48, 49, 50, 21, 22, 51, 52, 53, 54, 28, 29, 30, 31, 32, 33,
                34, 35, 36, 37, 38, 39, 40>> @@
            2 :> <<
                0, 1, 2, 3, 4, 5, 55, 56, 57, 58, 59, 60, 61, 44, 45, 46, 47,
                62, 63, 64, 65, 66, 22, 51, 52, 53, 54, 28, 29, 30, 31, 32,
                33, 34, 35, 36, 37, 38, 39, 40>> @@
            3 :> <<
                0, 1, 2, 3, 4, 5, 41, 42, 43, 9, 10, 67, 68, 61, 44, 45, 46,
                47, 62, 63, 21, 22, 51, 52, 53, 54, 28, 29, 30, 31, 32, 33,
                34, 35, 36, 37, 38, 39, 40>>) @@
    Code.pyk :> (0 :> <<
                0, 1, 2, 3, 4, 5, 6, 7, 8, 9, 10, 11, 12, 13, 14, 15, 16, 17,
                18>>) @@
    Code.sas :> (0 :> <<
                0, 1, 2, 3, 4, 5, 6, 7, 8, 9, 10, 11, 12, 13, 14, 15, 16, 17,
                18, 19, 20, 21, 22, 23, 24, 25, 26, 27, 28, 29, 30, 31>>) @@
    Code.sto :> (0 :> <<
                0, 1, 2, 3, 4, 5, 6, 7, 8, 9, 10, 11, 12, 13, 14, 15, 16, 17,
                18, 19, 20, 21, 22>>)

\* Lower band boundaries (kHz), indexed by band number (numpy index 0 is
\* position 1 of the sequence).
rad_min ==
    Code.gbr :> <<
        8900, 9201, 9500, 9966, 10199, 10698, 10900, 11199, 11696, 11900,
        12201, 12501, 12801, 13291, 13592, 13989, 14199, 14500, 15040, 15400,
        15840, 16141, 16399, 16900, 17400, 17871>> @@
    Code.hal :> <<
        8000, 8350, 8700, 9000, 9350, 9700, 10000, 10350, 10700, 11000,
        11350, 11651, 12000, 12300, 12650, 13000, 13350, 13700, 14000, 14350,
        14651, 15000, 15350, 15651, 16000, 16350, 16700, 17000, 17350, 17700,
        18000, 18350, 18700, 19000, 19350, 19700>> @@
    Code.han :> <<
        8305, 8965, 9900, 11075, 11550, 12370, 13200, 15010, 16210, 16555,
        17970, 18850, 19415, 19705, 19800>> @@
    Code.kap :> <<
        8900, 9201, 9600, 9966, 10200, 10501, 10701, 11000, 11430, 11800,
        12100, 12400, 12700, 13000, 13301, 13551, 13971, 14380, 14701, 15100,
        15400, 15840, 16141, 16399, 16900, 17400, 17871, 18000, 18350, 18700>> @@
    Code.kod :> <<
        8200, 8700, 9200, 9700, 10200, 10701, 11300, 11800, 12300, 12800,
        13300, 13800, 14500, 15000, 15500, 16100, 16600, 17100, 17600, 18100,
        18600, 19100, 19600, 20100, 20600, 21100, 21600, 8000, 8500, 9000,
        9500, 10000, 10500, 11000, 11500, 12000, 12500, 13000, 13500, 14000>> @@
    Code.ksr :> <<
        8000, 8400, 8700, 9000, 9300, 9600, 9900, 10200, 10500, 10800, 11100,
        11400, 11700, 12000, 12300, 12600, 12900, 13400, 13700, 14100, 14500,
        14800, 15000, 15300, 15700, 16000, 16400, 16900, 17400, 17900, 18400,
        18900, 19400, 19900, 20400, 20900, 21400, 8000, 9000, 10000, 11000,
        13700, 14001, 14300, 15300, 15600, 17400, 18100, 18800>> @@
    Code.pgr :> <<
        8016, 8317, 8618, 9000, 9301, 9487, 9901, 10200, 10501, 10900, 11000,
        11300, 11700, 12001, 12995, 13100, 13500, 13801, 14101, 14500, 14800,
        15101, 15500, 15900, 16200, 16501, 16900, 17200, 17500, 17800, 18000,
        18301, 18701, 19000, 19300, 19600, 19900, 20200, 20500, 20800, 21100,
        9901, 10300, 10601, 12001, 12995, 13300, 13600, 14000, 14301, 14600,
        15900, 16300, 16701, 17000, 9901, 10000, 10400, 10800, 11000, 11400,
        11800, 14000, 14400, 14700, 15000, 15400, 11100, 11500>> @@
    Code.pyk :> <<
        8000, 8430, 8985, 10155, 10656, 11290, 11475, 12105, 12305, 12590,
        13360, 13875, 14400, 15805, 16500, 16820, 18175, 18835, 19910>> @@
    Code.sas :> <<
        8000, 8907, 9208, 9600, 10100, 10499, 11000, 11300, 11600, 12300,
        12995, 13416, 13800, 14100, 14400, 14701, 15002, 15390, 15801, 16100,
        16400, 16701, 17000, 17300, 17600, 17900, 18200, 18500, 18800, 19100,
        19400, 19700>> @@
    Code.sto :> <<
        8202, 8900, 9200, 9501, 10000, 11100, 11401, 11800, 12301, 12801,
        13100, 13501, 13901, 14400, 14901, 16100, 16689, 16799, 17910, 18778,
        19674>>

\* Upper band boundaries (kHz), indexed by band number.
rad_max ==
    Code.gbr :> <<
        9200, 9499, 9965, 10198, 10697, 10899, 11198, 11695, 11899, 12200,
        12500, 12800, 13290, 13591, 13988, 14198, 14499, 14960, 15399, 15700,
        16140, 16398, 16899, 17399, 17870, 18000>> @@
    Code.hal :> <<
        8349, 8699, 8999, 9249, 9699, 9999, 10349, 10699, 10999, 11349,
        11650, 11999, 12299, 12949, 12999, 13349, 13699, 13999, 14349, 14650,
        14999, 15349, 15650, 15999, 16349, 16699, 16999, 17349, 17699, 17999,
        18349, 18699, 18999, 19349, 20000>> @@
    Code.han :> <<
        8335, 9040, 9985, 11275, 11600, 12415, 13260, 15080, 16360, 16615,
        18050, 18865, 19680, 19755, 19990>> @@
    Code.kap :> <<
        9200, 9599, 9965, 10199, 10500, 10700, 10999, 11429, 11799, 12099,
        12399, 12699, 12999, 13300, 13550, 13970, 14379, 14700, 15099, 15399,
        15700, 16140, 16398, 16899, 17399, 17870, 17999, 18349, 18699, 19000>> @@
    Code.kod :> <<
        8699, 9199, 9699, 10199, 10700, 11299, 11799, 12299, 12799, 13299,
        13799, 14499, 14999, 15499, 16099, 16599, 17099, 17599, 18099, 18599,
        19099, 19599, 20099, 20599, 21099, 21599, 22100, 8499, 8999, 9499,
        9999, 10499, 10999, 11499, 11999, 12499, 12999, 13499, 13999, 14499>> @@
    Code.ksr :> <<
        8399, 8699, 8999, 9299, 9599, 9899, 10199, 10499, 10799, 11099,
        11399, 11699, 11999, 12299, 12599, 12899, 13399, 13699, 14099, 14499,
        14799, 14999, 15299, 15699, 15999, 16399, 16899, 17399, 17899, 18399,
        18899, 19399, 19899, 20399, 20899, 21399, 21900, 8999, 9999, 10999,
        11399, 14000, 14299, 14999, 15599, 16399, 18099, 18799, 19399>> @@
    Code.pgr :> <<
        8316, 8617, 8999, 9300, 9486, 9900, 10199, 10500, 10899, 10999,
        11299, 11699, 12000, 12994, 13099, 13499, 13800, 14100, 14499, 14799,
        15100, 15499, 15899, 16199, 16500, 16899, 17199, 17499, 17799, 17999,
        18300, 18700, 18999, 19299, 19599, 19899, 20199, 20499, 20799, 21099,
        21300, 10299, 10600, 10899, 12996, 13299, 13599, 13999, 14300, 14599,
        15100, 16299, 16700, 16999, 17499, 9999, 10399, 10799, 10999, 11399,
        11799, 12000, 14399, 14699, 14999, 15399, 11499, 11799>> @@
    Code.pyk :> <<
        8195, 8850, 9395, 10655, 11175, 11450, 11595, 12235, 12510, 13280,
        13565, 13995, 15015, 16365, 16685, 17475, 18770, 18885, 20000>> @@
    Code.sas :> <<
        8300, 9207, 9599, 9900, 10498, 10999, 11299, 11599, 12000, 12600,
        13355, 13799, 14099, 14399, 14700, 15001, 15389, 15800, 16099, 16399,
        16700, 16999, 17299, 17599, 17899, 18199, 18499, 18799, 19099, 19399,
        19699, 19985>> @@
    Code.sto :> <<
        8500, 9199, 9500, 9900, 10300, 11400, 11799, 12300, 12800, 13099,
        13500, 13900, 14399, 14900, 15400, 16455, 16748, 16815, 17990, 18905,
        19686>>

\* Station ID to radar Code.
id_to_code ==
    1 :> Code.gbr @@ 2 :> Code.sch @@ 3 :> Code.kap @@ 4 :> Code.hal @@
    5 :> Code.sas @@ 6 :> Code.pgr @@ 7 :> Code.kod @@ 8 :> Code.sto @@
    9 :> Code.pyk @@ 10 :> Code.han @@ 11 :> Code.san @@ 12 :> Code.sys @@
    13 :> Code.sye @@ 14 :> Code.tig @@ 15 :> Code.ker @@ 16 :> Code.ksr @@
    18 :> Code.unw @@ 20 :> Code.mcm @@ 21 :> Code.fir @@ 32 :> Code.wal @@
    33 :> Code.bks @@ 40 :> Code.hok @@ 64 :> Code.inv @@ 65 :> Code.rkn @@
    90 :> Code.lyr @@ 128 :> Code.spe @@ 208 :> Code.adw @@ 209 :> Code.ade

-----------------------------------------------------------------------------
(* Bounds and inputs *)

\* Query frequencies are the band boundaries and the frequencies up to
\* FreqSlack kHz outside them.
FreqSlack == 1
\* Query positions lie within PosSlack of the ends of the band list.
PosSlack == 2

\* Every boundary of rad_band_time, one second before and after it, and a
\* few times far from any boundary.
QueryTimes ==
    { 
      <<1990, 6, 15, 0, 0, 0, 0>>,
      <<1994, 12, 31, 23, 59, 59, 0>>,
      <<1995, 1, 1, 0, 0, 0, 0>>,
      <<1995, 1, 1, 0, 0, 1, 0>>,
      <<2001, 10, 1, 23, 59, 59, 0>>,
      <<2001, 10, 2, 0, 0, 0, 0>>,
      <<2001, 10, 2, 0, 0, 1, 0>>,
      <<2003, 1, 1, 0, 0, 0, 0>>,
      <<2004, 8, 29, 23, 59, 59, 0>>,
      <<2004, 8, 30, 0, 0, 0, 0>>,
      <<2004, 8, 30, 0, 0, 1, 0>>,
      <<2004, 9, 30, 23, 59, 59, 0>>,
      <<2004, 10, 1, 0, 0, 0, 0>>,
      <<2004, 10, 1, 0, 0, 1, 0>>,
      <<2007, 8, 29, 23, 59, 59, 0>>,
      <<2007, 8, 30, 0, 0, 0, 0>>,
      <<2007, 8, 30, 0, 0, 1, 0>>,
      <<2007, 9, 30, 23, 59, 59, 0>>,
      <<2007, 10, 1, 0, 0, 0, 0>>,
      <<2007, 10, 1, 0, 0, 1, 0>>,
      <<2009, 8, 29, 23, 59, 59, 0>>,
      <<2009, 8, 30, 0, 0, 0, 0>>,
      <<2009, 8, 30, 0, 0, 1, 0>>,
      <<2009, 9, 30, 23, 59, 59, 0>>,
      <<2009, 10, 1, 0, 0, 0, 0>>,
      <<2009, 10, 1, 0, 0, 1, 0>>,
      <<2010, 8, 29, 23, 59, 59, 0>>,
      <<2010, 8, 30, 0, 0, 0, 0>>,
      <<2010, 8, 30, 0, 0, 1, 0>>,
      <<2010, 9, 6, 23, 59, 58, 0>>,
      <<2010, 9, 6, 23, 59, 59, 0>>,
      <<2010, 9, 6, 23, 59, 59, 500000>>,
      <<2010, 9, 7, 0, 0, 0, 0>>,
      <<2010, 9, 7, 0, 0, 1, 0>>,
      <<2016, 8, 26, 12, 30, 0, 0>>,
      <<2999, 12, 31, 23, 59, 59, 0>>,
      <<3000, 1, 1, 0, 0, 0, 0>>,
      <<3000, 1, 1, 0, 0, 1, 0>>,
      <<3001, 1, 1, 0, 0, 0, 0>>
    }

RadInputs ==
    {PyStr(c) : c \in DOMAIN rad_band_time} \cup
    {PyStr(Code.sch), PyStr(<<"H", "A", "N">>), PyStr(<<"H", "a", "n">>),
     PyStr(<<"x", "y", "z">>),
     PyInt(10), PyInt(7), PyInt(6), PyInt(2), PyInt(99), None}

-----------------------------------------------------------------------------
(* radFreqBands *)

has_key(d, k) == k.type = "int" /\ k.val \in DOMAIN d

\* numpy / list indexing: index i of an array of length n, negative indices
\* count from the end; outside -n .. n-1 the access raises IndexError.
IndexOK(i, n) == -n <= i /\ i < n
At(arr, i) == IF i >= 0 THEN arr[i + 1] ELSE arr[Len(arr) + i + 1]
\* arr[idxs] for a list of indices (numpy fancy indexing)
Take(arr, idxs) == [p \in DOMAIN idxs |-> At(arr, idxs[p])]
TakeOK(arr, idxs) == \A p \in DOMAIN idxs : IndexOK(idxs[p], Len(arr))

\* Mutant of time_key_scan: the end of a version's interval taken as
\* inclusive.
RECURSIVE time_key_scan_closed(_, _, _)
time_key_scan_closed(c, keys, rtime) ==
    IF keys = <<>> THEN -1
    ELSE LET time_limits == rad_band_time[c][Head(keys)]
         IN  IF DtLe(time_limits[1], rtime) /\ DtLe(rtime, time_limits[2])
             THEN Head(keys)
             ELSE time_key_scan_closed(c, Tail(keys), rtime)

\* get_time_key for a radar code that has an entry in rad_band_time: the
\* first key, in the order of keys(), whose limits contain rtime, else -1.
RECURSIVE time_key_scan(_, _, _)
time_key_scan(c, keys, rtime) ==
    IF keys = <<>> THEN -1
    ELSE LET time_limits == rad_band_time[c][Head(keys)]
         IN  IF DtLe(time_limits[1], rtime) /\ DtLt(rtime, time_limits[2])
             THEN Head(keys)
             ELSE time_key_scan(c, Tail(keys), rtime)

get_time_key(rad_code, rtime) ==
    IF rad_code.type = "str" /\ rad_code.val \in DOMAIN rad_band_time
    THEN [exc |-> "none",
          ret |-> time_key_scan(rad_code.val,
                                Ascending(DOMAIN rad_band_time[rad_code.val]),
                                rtime)]
    ELSE [exc |-> "KeyError", ret |-> -1]

\* Lines 264-276 of __init__: the radar code and station ID.
fb_resolve(rad) ==
    IF has_key(id_to_code, rad)
    THEN [exc |-> "none", rad_code |-> PyStr(id_to_code[rad.val]), stid |-> rad]
    ELSE IF rad.type = "none"
    THEN [exc |-> "none", rad_code |-> rad, stid |-> None]
    ELSE IF rad.type = "int"
    THEN [exc |-> "AttributeError", rad_code |-> rad, stid |-> None]
    ELSE LET match == {k \in DOMAIN id_to_code : id_to_code[k] = lower(rad.val)}
         IN  [exc |-> "none", rad_code |-> rad,
              stid |-> IF match = {} THEN None
                       ELSE PyInt(CHOOSE k \in match : TRUE)]

\* The snapshot of the except branch of __init__.
fb_empty(rtime) ==
    [stime |-> rtime, etime |-> rtime, tbands |-> <<>>,
     tmins |-> <<>>, tmaxs |-> <<>>]

\* Lines 281-285 of __init__: the snapshot of version tkey of a radar code
\* that has an entry in rad_band_time, and the except branch for the KeyError
\* or IndexError of each lookup.
fb_snapshot(c, tkey, rtime) ==
    IF tkey \notin DOMAIN rad_band_time[c] THEN fb_empty(rtime)
    ELSE IF c \notin DOMAIN rad_band_num THEN fb_empty(rtime)
    ELSE IF tkey \notin DOMAIN rad_band_num[c] THEN fb_empty(rtime)
    ELSE LET bands == rad_band_num[c][tkey]
         IN  IF c \notin DOMAIN rad_min \/ c \notin DOMAIN rad_max
             THEN fb_empty(rtime)
             ELSE IF ~TakeOK(rad_min[c], bands) \/ ~TakeOK(rad_max[c], bands)
             THEN fb_empty(rtime)
             ELSE [stime |-> rad_band_time[c][tkey][1],
                   etime |-> rad_band_time[c][tkey][2],
                   tbands |-> bands,
                   tmins |-> Take(rad_min[c], bands),
                   tmaxs |-> Take(rad_max[c], bands)]

\* Lines 278-291 of __init__: the try block, and the except branch for the
\* KeyError of get_time_key on a radar code without catalog entry.
fb_bands(rad_code, rtime) ==
    LET tk == get_time_key(rad_code, rtime)
    IN  IF tk.exc # "none" THEN fb_empty(rtime)
        ELSE fb_snapshot(rad_code.val, tk.ret, rtime)

NoObject ==
    [rad_code |-> None, stid |-> None, stime |-> <<>>, etime |-> <<>>,
     tbands |-> <<>>, tmins |-> <<>>, tmaxs |-> <<>>]

\* radFreqBands(rad, rtime)
fb_init(rad, rtime) ==
    /\ pc = "start"
    /\ LET id == fb_resolve(rad)
           snap == fb_bands(id.rad_code, rtime)
       IN  IF id.exc # "none"
           THEN /\ pc' = "raised"
                /\ fb' = NoObject
                /\ call' = [op |-> "radFreqBands", args |-> <<rad, rtime>>,
                            exc |-> id.exc, ret |-> None]
           ELSE /\ pc' = "radFreqBands"
                /\ fb' = [rad_code |-> id.rad_code, stid |-> id.stid,
                          stime |-> snap.stime, etime |-> snap.etime,
                          tbands |-> snap.tbands, tmins |-> snap.tmins,
                          tmaxs |-> snap.tmaxs]
                /\ call' = [op |-> "radFreqBands", args |-> <<rad, rtime>>,
                            exc |-> "none", ret |-> None]
    /\ UNCHANGED <<td, ld>>

\* fb.get_time_key(rtime)
fb_get_time_key(rtime) ==
    /\ pc = "radFreqBands"
    /\ LET r == get_time_key(fb.rad_code, rtime)
       IN  call' = [op |-> "get_time_key", args |-> <<rtime>>,
                    exc |-> r.exc, ret |-> r.ret]
    /\ UNCHANGED <<pc, fb, td, ld>>

\* Mutant of tband_max_min_scan: the upper boundary of a band taken as
\* exclusive.
RECURSIVE tband_max_min_scan_open(_, _, _, _)
tband_max_min_scan_open(tmins, tmaxs, tfreq, i) ==
    IF i > Len(tmins) THEN <<-1, -1>>
    ELSE IF tfreq - tmins[i] >= 0 /\ tmaxs[i] - tfreq > 0
         THEN <<tmins[i], tmaxs[i]>>
         ELSE tband_max_min_scan_open(tmins, tmaxs, tfreq, i + 1)

\* The scan of get_tband_max_min from position i (1-based) on.
RECURSIVE tband_max_min_scan(_, _, _, _)
tband_max_min_scan(tmins, tmaxs, tfreq, i) ==
    IF i > Len(tmins) THEN <<-1, -1>>
    ELSE IF tfreq - tmins[i] >= 0 /\ tmaxs[i] - tfreq >= 0
         THEN <<tmins[i], tmaxs[i]>>
         ELSE tband_max_min_scan(tmins, tmaxs, tfreq, i + 1)

\* Mutant of get_tband_max_min: the limits are returned as (max, min).
get_tband_max_min_swapped(self, tfreq) ==
    LET r == tband_max_min_scan(self.tmins, self.tmaxs, tfreq, 1)
    IN  <<r[2], r[1]>>

\* get_tband_max_min (lines 378-401)
get_tband_max_min(self, tfreq) ==
    tband_max_min_scan(self.tmins, self.tmaxs, tfreq, 1)

\* int(x / 2.0) for an integer x: truncation towards zero
HalfInt(x) == IF x >= 0 THEN x \div 2 ELSE -((-x) \div 2)

get_mean_tband_freq(self, tband) ==
    IF Len(self.tmins) > tband
    THEN IF IndexOK(tband, Len(self.tmaxs)) /\ IndexOK(tband, Len(self.tmins))
         THEN [exc |-> "none",
               ret |-> HalfInt(At(self.tmaxs, tband) + At(self.tmins, tband))]
         ELSE [exc |-> "IndexError", ret |-> -1]
    ELSE [exc |-> "none", ret |-> -1]

\* The scan of get_tfreq_band_num from position i (1-based) on.
RECURSIVE tfreq_band_num_scan(_, _, _, _, _)
tfreq_band_num_scan(tbands, tmins, tmaxs, tfreq, i) ==
    IF i > Len(tmins) THEN -1
    ELSE IF tmins[i] <= tfreq /\ tfreq <= tmaxs[i]
         THEN tbands[i]
         ELSE tfreq_band_num_scan(tbands, tmins, tmaxs, tfreq, i + 1)

get_tfreq_band_num(self, tfreq) ==
    tfreq_band_num_scan(self.tbands, self.tmins, self.tmaxs, tfreq, 1)

\* Frequencies (kHz) asked of a snapshot: every band boundary of the
\* snapshot, the frequencies FreqSlack outside of it, and the two
\* frequencies of the documented han example.
FreqInputs(self) ==
    {13200, 20000} \cup
    UNION {{self.tmins[i] - FreqSlack, self.tmins[i],
            self.tmaxs[i], self.tmaxs[i] + FreqSlack} :
             i \in DOMAIN self.tmins}

PosInputs(self) ==
    (-(Len(self.tmins) + PosSlack)) .. (Len(self.tmins) + PosSlack)

fb_get_tband_max_min(tfreq) ==
    /\ pc = "radFreqBands"
    /\ call' = [op |-> "get_tband_max_min", args |-> <<tfreq>>,
                exc |-> "none", ret |-> get_tband_max_min(fb, tfreq)]
    /\ UNCHANGED <<pc, fb, td, ld>>

fb_get_mean_tband_freq(tband) ==
    /\ pc = "radFreqBands"
    /\ LET r == get_mean_tband_freq(fb, tband)
       IN  call' = [op |-> "get_mean_tband_freq", args |-> <<tband>>,
                    exc |-> r.exc, ret |-> r.ret]
    /\ UNCHANGED <<pc, fb, td, ld>>

fb_get_tfreq_band_num(tfreq) ==
    /\ pc = "radFreqBands"
    /\ call' = [op |-> "get_tfreq_band_num", args |-> <<tfreq>>,
                exc |-> "none", ret |-> get_tfreq_band_num(fb, tfreq)]
    /\ UNCHANGED <<pc, fb, td, ld>>

-----------------------------------------------------------------------------
(* radTdiff *)

\* Floats are tagged integers; NaN is np.nan.
PyFloat(x) == [type |-> "float", val |-> x]
NaN == [type |-> "nan"]

\* At most MaxLines lines are read from a tdiff file.
MaxLines == 3

\* Times are datetimes, modelled by their order as integer instants.
\* Two disjoint intervals with a gap, and one that meets the first at its end.
Intervals == {<<0, 1>>, <<1, 2>>, <<3, 3>>}
Times == UNION {{iv[1], iv[2]} : iv \in Intervals}
Bands == {1, 2}

\* Fields of a split line: the text of a number, or any other text.
Num(n) == [k |-> "num", v |-> n]
Text(t) == [k |-> "text", v |-> t]
\* bool(field): a string is false only when empty.
bool(field) == ~(field.k = "text" /\ field.v = "")

\* The column arguments: band, start time, end time, tdiff, error and
\* validation flag in columns 0 to 5, and the same with a negative band
\* column or a negative validation column.  The start and the end time take
\* one column each.
Columns ==
    [tband_col |-> 0, stime_cols |-> <<1>>, etime_cols |-> <<2>>,
     tdiff_col |-> 3, terr_col |-> 4, val_col |-> 5]
ColumnInputs ==
    {Columns, [Columns EXCEPT !.tband_col = -1],
     [Columns EXCEPT !.val_col = -1]}

\* split_col: None splits on runs of whitespace, which yields no empty
\* field; a delimiter such as "," can.
SplitInputs == {None, PyStr(",")}

\* The file that exists, and one that does not.
FileInputs == {PyStr("han.tdiff"), PyStr("missing.tdiff")}
isfile(path) == path.val = "han.tdiff"

\* The radars of the constructions with a file: a station ID, an unknown
\* code, an integer that is no station ID, and None.
TdiffRadInputs ==
    {PyInt(10), PyStr(<<"x", "y", "z">>), PyInt(99), None}

\* The lines of a file: a header line (one that contains "#"), a line of two
\* fields, a line that lacks only the last column, full lines of band 1
\* with each interval and of band 2 with one, and full lines in which one of the first five fields is text that is no number and
\* no time.  The numeric tdiff and error fields are filled in by
\* td_load_line, which numbers the records so that each estimate tells which
\* line it came from.
Full(b, iv, v) ==
    <<Num(b), Num(iv[1]), Num(iv[2]), Num(0), Num(0), Text(v)>>
FileLines ==
    {[hash |-> TRUE, fdata |-> <<Text("#")>>],
     [hash |-> FALSE, fdata |-> <<Num(1), Num(0)>>],
     [hash |-> FALSE, fdata |-> <<Num(1), Num(0), Num(1), Num(0), Num(0)>>]}
    \cup
    {[hash |-> FALSE, fdata |-> Full(1, iv, v)] :
        iv \in Intervals, v \in {"", "True", "False"}}
    \cup
    {[hash |-> FALSE, fdata |-> Full(2, <<0, 1>>, v)] :
        v \in {"", "True", "False"}}
    \cup
    {[hash |-> FALSE,
      fdata |-> [Full(1, <<0, 1>>, "True") EXCEPT ![i] = Text("x")]] :
        i \in 1..5}

NoTdiff ==
    [rad_code |-> None, stid |-> None, tdiff_file |-> None,
     tbands |-> <<>>, stimes |-> <<>>, etimes |-> <<>>, est_tdiffs |-> <<>>,
     tdiff_errs |-> <<>>, validated |-> <<>>]

NoLoad ==
    [cols |-> <<>>, split_col |-> None, bad_lines |-> 0, nread |-> 0,
     lines |-> <<>>]

\* Lines 94-105 of __init__: the radar code and station ID.
td_resolve(rad) ==
    IF has_key(id_to_code, rad)
    THEN [exc |-> "none", rad_code |-> PyStr(id_to_code[rad.val]), stid |-> rad]
    ELSE IF rad.type # "str"
    THEN [exc |-> "AttributeError", rad_code |-> rad, stid |-> None]
    ELSE LET match == {k \in DOMAIN id_to_code : id_to_code[k] = lower(rad.val)}
         IN  [exc |-> "none", rad_code |-> rad,
              stid |-> IF match = {} THEN None
                       ELSE PyInt(CHOOSE k \in match : TRUE)]

\* Lines 107-115 of __init__: the tdiff_file attribute.
td_file(id, tdiff_file) ==
    IF id.rad_code.type = "none" \/ id.stid.type = "none" THEN None
    ELSE IF tdiff_file.type # "none" /\ ~isfile(tdiff_file) THEN None
    ELSE tdiff_file

Min(S) == CHOOSE x \in S : \A y \in S : x <= y
Max(S) == CHOOSE x \in S : \A y \in S : x >= y
Range(q) == {q[i] : i \in DOMAIN q}

\* Lines 213-215 of load_tdiff: the columns that are tested.
all_cols(cols) ==
    {cols.tdiff_col, cols.terr_col, cols.tband_col}
        \cup Range(cols.stime_cols) \cup Range(cols.etime_cols)

\* Mutant of loader: the test for the hardware tdiff reads the attribute
\* self.tdiff_file.
loader_attr(tdiff_file, self) ==
    IF self.tdiff_file = None THEN "load_hardware_tdiff" ELSE "load_tdiff"

\* Lines 125-129 of __init__: the method that loads the lists, if any.
loader(tdiff_file, self) ==
    IF tdiff_file = None THEN "load_hardware_tdiff"
    ELSE IF self.tdiff_file # None THEN "load_tdiff"
    ELSE "none"

\* radTdiff(rad, tdiff_file, ..., split_col) where load_hardware_tdiff is
\* not called, up to the first line of the file: lines 89-129 of __init__
\* and lines 212-227 of load_tdiff.  The field ran of the call tells which
\* method __init__ called.
td_init(rad, tdiff_file, cols, split_col) ==
    /\ pc = "start"
    /\ LET id == td_resolve(rad)
           self == [NoTdiff EXCEPT !.rad_code = id.rad_code,
                                   !.stid = id.stid,
                                   !.tdiff_file = td_file(id, tdiff_file)]
           args == <<rad, tdiff_file, cols, split_col>>
       IN  IF id.exc # "none"
           THEN /\ tdiff_file # None
                /\ pc' = "raised"
                /\ td' = NoTdiff
                /\ ld' = NoLoad
                /\ call' = [op |-> "radTdiff", args |-> args,
                            exc |-> id.exc, ret |-> None, ran |-> "none"]
           ELSE /\ loader(tdiff_file, self) # "load_hardware_tdiff"
                /\ td' = self
                /\ call' = [op |-> "radTdiff", args |-> args,
                            exc |-> "none", ret |-> None,
                            ran |-> loader(tdiff_file, self)]
                /\ IF /\ loader(tdiff_file, self) = "load_tdiff"
                      /\ Min(all_cols(cols)) >= 0
                   THEN /\ pc' = "load_tdiff"
                        /\ ld' = [cols |-> cols, split_col |-> split_col,
                                  bad_lines |-> 0, nread |-> 0,
                                  lines |-> <<>>]
                   ELSE /\ pc' = "radTdiff"
                        /\ ld' = NoLoad
    /\ UNCHANGED fb

\* int(field), float(field) and strptime(field, time_fmt) succeed on the
\* text of a number (or of a time) and raise ValueError on any other text.
parses(field) == field.k = "num"
int(field) == field.v
float(field) == PyFloat(field.v)
strptime(field) == field.v

\* Mutant of is_data: header lines are taken for data.
is_data_all(fline) == TRUE
\* Line 233: fline.find("#") < 0
is_data(fline) == ~fline.hash

\* The constructor raises exception e out of load_tdiff.
td_raise(e) ==
    /\ pc' = "raised"
    /\ td' = NoTdiff
    /\ ld' = NoLoad
    /\ call' = [call EXCEPT !.exc = e]

\* One pass of the loop of load_tdiff (lines 231-266) over the next line.
td_load_line(fline) ==
    /\ pc = "load_tdiff"
    /\ ld.nread < MaxLines
    \* split(None) yields no empty field
    /\ \A i \in DOMAIN fline.fdata :
          (ld.split_col.type = "none") => bool(fline.fdata[i])
    /\ LET c == ld.cols
           max_col == Max(all_cols(c))
           n == Len(td.tbands) + 1
           \* the line, with the tdiff and error of record n
           fdata == [i \in DOMAIN fline.fdata |->
                        IF ~parses(fline.fdata[i]) THEN fline.fdata[i]
                        ELSE IF i = c.tdiff_col + 1 THEN Num(n)
                        ELSE IF i = c.terr_col + 1 THEN Num(100 + n)
                        ELSE fline.fdata[i]]
           read == [ld EXCEPT !.nread = @ + 1,
                              !.lines = Append(@, [fline EXCEPT
                                                      !.fdata = fdata])]
           stime == At(fdata, c.stime_cols[1])
           etime == At(fdata, c.etime_cols[1])
       IN  IF ~is_data(fline)
           THEN /\ ld' = read
                /\ UNCHANGED <<pc, td, call>>
           ELSE IF Len(fdata) <= max_col
           THEN /\ ld' = [read EXCEPT !.bad_lines = @ + 1]
                /\ UNCHANGED <<pc, td, call>>
           ELSE IF ~parses(stime)
           THEN \* lines 241-258: the except branch, nothing appended
                /\ ld' = [read EXCEPT !.bad_lines = @ + 1]
                /\ UNCHANGED <<pc, td, call>>
           ELSE IF ~parses(etime)
           THEN \* the except branch after the start time was appended
                /\ td' = [td EXCEPT !.stimes = Append(@, strptime(stime))]
                /\ ld' = [read EXCEPT !.bad_lines = @ + 1]
                /\ UNCHANGED <<pc, call>>
           ELSE IF ~parses(At(fdata, c.tband_col))
           THEN td_raise("ValueError")     \* int(fdata[tband_col])
           ELSE IF ~parses(At(fdata, c.tdiff_col))
           THEN td_raise("ValueError")     \* float(fdata[tdiff_col])
           ELSE IF ~parses(At(fdata, c.terr_col))
           THEN td_raise("ValueError")     \* float(fdata[terr_col])
           ELSE IF ~IndexOK(c.val_col, Len(fdata))
           THEN td_raise("IndexError")     \* fdata[val_col]
           ELSE /\ td' = [td EXCEPT
                     !.stimes = Append(@, strptime(stime)),
                     !.etimes = Append(@, strptime(etime)),
                     !.tbands = Append(@, int(At(fdata, c.tband_col))),
                     !.est_tdiffs = Append(@, float(At(fdata, c.tdiff_col))),
                     !.tdiff_errs = Append(@, float(At(fdata, c.terr_col))),
                     !.validated = Append(@, bool(At(fdata, c.val_col)))]
                /\ ld' = read
                /\ UNCHANGED <<pc, call>>
    /\ UNCHANGED fb

\* The end of the file: lines 268-274 of load_tdiff and the return of
\* __init__.
td_load_close ==
    /\ pc = "load_tdiff"
    /\ pc' = "radTdiff"
    /\ ld' = NoLoad
    /\ UNCHANGED <<fb, td, call>>

\* The hardware metadata of a radar, pyrad.radar(rad_code): the initial site
\* time stTime and the revisions (sites) in order of time, each with the end
\* tval of its validity and its tdiff.  At most MaxRevisions revisions; the
\* tdiff of a revision tells which revision it is.
MaxRevisions == 2
Revisions(tvals) ==
    [k \in DOMAIN tvals |-> [tval |-> tvals[k], tdiff |-> PyFloat(10 + k)]]
HardwareInputs ==
    {[stTime |-> 0, sites |-> Revisions(Ascending(S))] :
        S \in {T \in SUBSET (Times \ {0}) : Cardinality(T) <= MaxRevisions}}

\* The radars of the constructions without a file: those of the
\* constructions with a file, and a code in lower and in upper case.
HardwareRadInputs ==
    TdiffRadInputs \cup {PyStr(Code.han), PyStr(<<"H", "A", "N">>)}

\* The default rtime of radFreqBands: the time at which the module is loaded.
TodayInputs == {<<2016, 8, 26, 12, 30, 0, 0>>, <<3001, 1, 1, 0, 0, 0, 0>>}

\* Mutant of hardware_bands: the records of a revision start at its tval.
hardware_bands_point(self, stime, hard, tbands) ==
    [self EXCEPT
        !.stimes = @ \o [j \in DOMAIN tbands |-> hard.tval],
        !.etimes = @ \o [j \in DOMAIN tbands |-> hard.tval],
        !.tbands = @ \o tbands,
        !.est_tdiffs = @ \o [j \in DOMAIN tbands |-> hard.tdiff],
        !.tdiff_errs = @ \o [j \in DOMAIN tbands |-> NaN],
        !.validated = @ \o [j \in DOMAIN tbands |-> TRUE]]

\* Lines 298-304 of load_hardware_tdiff: the records of one revision, one
\* for each band.
hardware_bands(self, stime, hard, tbands) ==
    [self EXCEPT
        !.stimes = @ \o [j \in DOMAIN tbands |-> stime],
        !.etimes = @ \o [j \in DOMAIN tbands |-> hard.tval],
        !.tbands = @ \o tbands,
        !.est_tdiffs = @ \o [j \in DOMAIN tbands |-> hard.tdiff],
        !.tdiff_errs = @ \o [j \in DOMAIN tbands |-> NaN],
        !.validated = @ \o [j \in DOMAIN tbands |-> TRUE]]

RECURSIVE load_hardware_sites(_, _, _, _, _)
\* Lines 295-306 of load_hardware_tdiff: the loop over the revisions from
\* revision k on, with the start time carried from one to the next.
load_hardware_sites(self, stime, sites, tbands, k) ==
    IF k > Len(sites) THEN self
    ELSE load_hardware_sites(hardware_bands(self, stime, sites[k], tbands),
                             sites[k].tval, sites, tbands, k + 1)

\* load_hardware_tdiff (lines 277-308) with the hardware metadata rad_hdw and
\* the bands of radFreqBands(self.rad_code) at its default time rtime.
load_hardware_tdiff(self, rad_hdw, rtime) ==
    LET rad_tbands == fb_bands(fb_resolve(self.rad_code).rad_code, rtime)
    IN  load_hardware_sites(self, rad_hdw.stTime, rad_hdw.sites,
                            rad_tbands.tbands, 1)

\* radTdiff(rad, tdiff_file) where load_hardware_tdiff is called: lines
\* 89-126 of __init__.
td_init_hardware(rad, tdiff_file, rad_hdw, rtime) ==
    /\ pc = "start"
    /\ LET id == td_resolve(rad)
           self == [NoTdiff EXCEPT !.rad_code = id.rad_code,
                                   !.stid = id.stid,
                                   !.tdiff_file = td_file(id, tdiff_file)]
           args == <<rad, tdiff_file, rad_hdw, rtime>>
       IN  IF id.exc # "none"
           THEN /\ tdiff_file = None
                /\ pc' = "raised"
                /\ td' = NoTdiff
                /\ call' = [op |-> "radTdiff", args |-> args,
                            exc |-> id.exc, ret |-> None, ran |-> "none"]
           ELSE /\ loader(tdiff_file, self) = "load_hardware_tdiff"
                /\ pc' = "radTdiff"
                /\ td' = load_hardware_tdiff(self, rad_hdw, rtime)
                /\ call' = [op |-> "radTdiff", args |-> args,
                            exc |-> "none", ret |-> None,
                            ran |-> loader(tdiff_file, self)]
    /\ ld' = NoLoad
    /\ UNCHANGED fb

\* np.where(test)[0]: the positions, ascending, at which the boolean array
\* test is true.
Where(test) == Ascending({i \in DOMAIN test : test[i]})
\* q == x, q <= x and q >= x for an array q
Eq(q, x) == [i \in DOMAIN q |-> q[i] = x]
Le(q, x) == [i \in DOMAIN q |-> q[i] <= x]
Ge(q, x) == [i \in DOMAIN q |-> q[i] >= x]
\* q[idx] for an array of positions
Sub(q, idx) == [j \in DOMAIN idx |-> q[idx[j]]]

\* Mutant of get_tdiff: of several records that pass the filters the first
\* is taken.
get_tdiff_first(self, tband, ttime, tval) ==
    LET itbands == Where(Eq(self.tbands, tband))
        itime == Where(Le(Sub(self.stimes, itbands), ttime))
        idiff == Sub(itbands, itime)
        itime2 == Where(Ge(Sub(self.etimes, idiff), ttime))
    IN  IF Len(itbands) > 0 /\ Len(itime) > 0 /\ Len(itime2) >= 1
        THEN LET idiff2 == itbands[itime2[1]]
             IN  IF ~tval \/ (tval /\ self.validated[idiff2])
                 THEN <<self.est_tdiffs[idiff2], self.tdiff_errs[idiff2]>>
                 ELSE <<NaN, NaN>>
        ELSE <<NaN, NaN>>

\* get_tdiff (lines 330-351).  Positions are 1-based.  itime2 holds positions
\* in idiff, and line 345 uses them as positions in itbands.  The list
\* elements at the one-element index array idiff2 are the elements at that
\* index, as with the numpy releases of the time of the code.
get_tdiff(self, tband, ttime, tval) ==
    LET itbands == Where(Eq(self.tbands, tband))
        itime == Where(Le(Sub(self.stimes, itbands), ttime))
        idiff == Sub(itbands, itime)
        itime2 == Where(Ge(Sub(self.etimes, idiff), ttime))
    IN  IF Len(itbands) > 0 /\ Len(itime) > 0 /\ Len(itime2) = 1
        THEN LET idiff2 == itbands[itime2[1]]
             IN  IF ~tval \/ (tval /\ self.validated[idiff2])
                 THEN <<self.est_tdiffs[idiff2], self.tdiff_errs[idiff2]>>
                 ELSE <<NaN, NaN>>
        ELSE <<NaN, NaN>>

\* Mutant of td_get_tdiff: the query drops the validation flags of the
\* instance.
td_get_tdiff_clear(tband, ttime, tval) ==
    /\ pc = "radTdiff"
    /\ call' = [op |-> "get_tdiff", args |-> <<tband, ttime, tval>>,
                exc |-> "none", ret |-> get_tdiff(td, tband, ttime, tval)]
    /\ td' = [td EXCEPT !.validated = <<>>]
    /\ UNCHANGED <<pc, fb, ld>>

\* self.get_tdiff(tband, ttime, tval)
td_get_tdiff(tband, ttime, tval) ==
    /\ pc = "radTdiff"
    /\ call' = [op |-> "get_tdiff", args |-> <<tband, ttime, tval>>,
                exc |-> "none", ret |-> get_tdiff(td, tband, ttime, tval)]
    /\ UNCHANGED <<pc, fb, td, ld>>

-----------------------------------------------------------------------------
(* Specification *)

Init ==
    /\ pc = "start"
    /\ fb = NoObject
    /\ td = NoTdiff
    /\ ld = NoLoad
    /\ call = [op |-> "none", args |-> <<>>, exc |-> "none", ret |-> None]

\* A radFreqBands instance: its construction and its queries.
NextFreqBands ==
    \/ \E rad \in RadInputs, rtime \in QueryTimes : fb_init(rad, rtime)
    \/ \E rtime \in QueryTimes : fb_get_time_key(rtime)
    \/ \E tfreq \in FreqInputs(fb) : fb_get_tband_max_min(tfreq)
    \/ \E tband \in PosInputs(fb) : fb_get_mean_tband_freq(tband)
    \/ \E tfreq \in FreqInputs(fb) : fb_get_tfreq_band_num(tfreq)

\* A radTdiff instance: its construction, from a file or from the hardware
\* metadata, and its queries.
NextTdiff ==
    \/ \E rad \in TdiffRadInputs, tdiff_file \in FileInputs \cup {None},
          cols \in ColumnInputs, split_col \in SplitInputs :
            td_init(rad, tdiff_file, cols, split_col)
    \/ \E rad \in HardwareRadInputs, tdiff_file \in FileInputs \cup {None},
          rad_hdw \in HardwareInputs, rtime \in TodayInputs :
            td_init_hardware(rad, tdiff_file, rad_hdw, rtime)
    \/ \E fline \in FileLines : td_load_line(fline)
    \/ td_load_close
    \/ \E tband \in Bands, ttime \in Times, tval \in BOOLEAN :
            td_get_tdiff(tband, ttime, tval)

Next == NextFreqBands \/ NextTdiff

Spec == Init /\ [][Next]_vars

FreqBandsSpec == Init /\ [][NextFreqBands]_vars

TdiffSpec == Init /\ [][NextTdiff]_vars

-----------------------------------------------------------------------------
(* Claims about radFreqBands *)

\* The versions of radar code c whose interval [start, end) contains time t.
Covering(c, t) ==
    {k \in DOMAIN rad_band_time[c] :
        DtLe(rad_band_time[c][k][1], t) /\ DtLt(t, rad_band_time[c][k][2])}

InCatalog(rad_code) ==
    rad_code.type = "str" /\ rad_code.val \in DOMAIN rad_band_time

\* The positions of the snapshot whose band [min, max] contains frequency f.
Containing(self, f) ==
    {i \in DOMAIN self.tmins : self.tmins[i] <= f /\ f <= self.tmaxs[i]}

\* C4: for every radar of rad_band_time and every time t, get_time_key
\* returns the key of the one version with effectiveStart <= t < effectiveEnd
\* and -1 when no version covers t: before the earliest start, at or after the
\* latest end, or in a gap between versions.  The end bound is exclusive.
C4_VersionSelection ==
    (call.op = "get_time_key" /\ InCatalog(fb.rad_code)) =>
        LET cov == Covering(fb.rad_code.val, call.args[1])
        IN  /\ call.exc = "none"
            /\ Cardinality(cov) <= 1
            /\ IF cov = {} THEN call.ret = -1 ELSE cov = {call.ret}

\* kod at the very end of its version 1, which starts the one-second gap
\* before version 2: no version.
C4_Witness ==
    /\ call.op = "get_time_key"
    /\ fb.rad_code = PyStr(Code.kod)
    /\ call.args[1] = <<2010, 9, 6, 23, 59, 59, 0>>
    /\ call.exc = "none"
    /\ call.ret = -1

\* C5: for every radar and version of the shipped catalog and every time in
\* the version's interval, the constructed radFreqBands has the version's
\* stime and etime, its declared band list in order, and tmins and tmaxs of
\* the same length holding the bounds of those bands; it is never the empty
\* snapshot.
C5_MatchedVersionSnapshot ==
    (/\ call.op = "radFreqBands"
     /\ pc = "radFreqBands"
     /\ InCatalog(fb.rad_code)
     /\ Covering(fb.rad_code.val, call.args[2]) # {}) =>
        \E k \in Covering(fb.rad_code.val, call.args[2]) :
            LET c == fb.rad_code.val
            IN  /\ fb.stime = rad_band_time[c][k][1]
                /\ fb.etime = rad_band_time[c][k][2]
                /\ fb.tbands = rad_band_num[c][k]
                /\ Len(fb.tmins) = Len(fb.tbands)
                /\ Len(fb.tmaxs) = Len(fb.tbands)
                /\ \A i \in DOMAIN fb.tbands :
                      /\ fb.tbands[i] + 1 \in DOMAIN rad_min[c]
                      /\ fb.tbands[i] + 1 \in DOMAIN rad_max[c]
                      /\ fb.tmins[i] = rad_min[c][fb.tbands[i] + 1]
                      /\ fb.tmaxs[i] = rad_max[c][fb.tbands[i] + 1]

\* The radar code an argument rad stands for: the code of a station ID of
\* id_to_code, and otherwise rad itself.
CodeOf(rad) ==
    IF has_key(id_to_code, rad) THEN PyStr(id_to_code[rad.val]) ELSE rad

\* C6: when the radar has no catalog entry or no version covers the requested
\* time, constructing radFreqBands does not raise and yields the empty
\* snapshot: tbands, tmins and tmaxs empty and stime = etime = the query time.
C6_EmptySnapshot ==
    (/\ call.op = "radFreqBands"
     /\ \/ ~InCatalog(CodeOf(call.args[1]))
        \/ Covering(CodeOf(call.args[1]).val, call.args[2]) = {}) =>
        /\ pc = "radFreqBands"
        /\ call.exc = "none"
        /\ fb.tbands = <<>>
        /\ fb.tmins = <<>>
        /\ fb.tmaxs = <<>>
        /\ fb.stime = call.args[2]
        /\ fb.etime = call.args[2]

\* C7: get_tband_max_min(f) returns the (min, max) of the first band, in
\* declared order, with min <= f <= max, both bounds inclusive, and (-1, -1)
\* when no band contains f; of overlapping bands the earlier one wins.
C7_FirstContainingBand ==
    call.op = "get_tband_max_min" =>
        LET hits == Containing(fb, call.args[1])
        IN  /\ call.exc = "none"
            /\ IF hits = {} THEN call.ret = <<-1, -1>>
               ELSE LET i == CHOOSE j \in hits : \A h \in hits : j <= h
                    IN  call.ret = <<fb.tmins[i], fb.tmaxs[i]>>

\* A frequency on the upper boundary of one band and inside a later band
\* that overlaps it (hal: 12949 kHz closes band 13 and lies in band 14).
C7_Witness ==
    /\ call.op = "get_tband_max_min"
    /\ \E i, j \in Containing(fb, call.args[1]) :
          /\ i < j
          /\ call.args[1] = fb.tmaxs[i]
          /\ call.ret = <<fb.tmins[i], fb.tmaxs[i]>>

\* C8: for every snapshot built from the shipped catalog and every band
\* (bandNumber, min, max) declared in it, get_tfreq_band_num(min) and
\* get_tfreq_band_num(max) are bandNumber, and get_tfreq_band_num(min - 1) is
\* another band number or -1.
C8_BandRoundTrip ==
    call.op = "get_tfreq_band_num" =>
        \A i \in DOMAIN fb.tbands :
            /\ call.args[1] = fb.tmins[i] => call.ret = fb.tbands[i]
            /\ call.args[1] = fb.tmaxs[i] => call.ret = fb.tbands[i]
            /\ call.args[1] = fb.tmins[i] - 1 => call.ret # fb.tbands[i]

\* C9: for every snapshot built from the shipped catalog and every position
\* i of its band list, get_mean_tband_freq(i) is floor((tmins[i] + tmaxs[i]) / 2)
\* and lies between tmins[i] and tmaxs[i].
C9_MeanFrequencyBound ==
    (/\ call.op = "get_mean_tband_freq"
     /\ call.args[1] \in 0 .. (Len(fb.tmins) - 1)) =>
        LET lo == fb.tmins[call.args[1] + 1]
            hi == fb.tmaxs[call.args[1] + 1]
        IN  /\ call.exc = "none"
            /\ call.ret = (lo + hi) \div 2
            /\ lo <= call.ret
            /\ call.ret <= hi

\* C10: get_mean_tband_freq(p) returns -1 without raising for every position
\* p outside 0 .. len(tmins) - 1, negative positions included.
C10_PositionOutOfRange ==
    (/\ call.op = "get_mean_tband_freq"
     /\ call.args[1] \notin 0 .. (Len(fb.tmins) - 1)) =>
        /\ call.exc = "none"
        /\ call.ret = -1

-----------------------------------------------------------------------------
(* Claims about radTdiff.get_tdiff *)

\* The records of band b whose interval [startTime, endTime] contains t.
Matching(self, b, t) ==
    {i \in DOMAIN self.tbands :
        self.tbands[i] = b /\ self.stimes[i] <= t /\ t <= self.etimes[i]}

\* The (estimate, error) of record i.
Estimate(self, i) == <<self.est_tdiffs[i], self.tdiff_errs[i]>>

\* C1: when the records of the queried band are two records with
\* non-overlapping intervals, in either order in the lists and with records
\* of other bands anywhere between them, get_tdiff(band, t, tval=False)
\* returns the (estimate, error) of the record whose interval contains t, and
\* (NaN, NaN) for a t in neither interval.
C1_TwoRecordDeterminism ==
    (call.op = "get_tdiff" /\ call.args[3] = FALSE) =>
        \A i, j \in DOMAIN td.tbands :
            (/\ i # j
             /\ {k \in DOMAIN td.tbands : td.tbands[k] = call.args[1]} = {i, j}
             /\ td.etimes[i] < td.stimes[j] \/ td.etimes[j] < td.stimes[i]) =>
                LET m == Matching(td, call.args[1], call.args[2])
                IN  /\ i \in m => call.ret = Estimate(td, i)
                    /\ m = {} => call.ret = <<NaN, NaN>>

\* C2: with tval true, a query whose one matching record (band, start time
\* and end time) is not validated returns (NaN, NaN), and every value that is
\* returned is that of a validated record.
C2_ValidationGating ==
    (call.op = "get_tdiff" /\ call.args[3] = TRUE) =>
        LET m == Matching(td, call.args[1], call.args[2])
        IN  /\ \A i \in m :
                  (m = {i} /\ ~td.validated[i]) => call.ret = <<NaN, NaN>>
            /\ call.ret # <<NaN, NaN>> =>
                  \E i \in DOMAIN td.tbands :
                      td.validated[i] /\ call.ret = Estimate(td, i)

\* C3: whenever no record, or more than one record, of the queried band
\* satisfies startTime <= time <= endTime, get_tdiff returns (NaN, NaN), for
\* either value of tval.
C3_ConservativeTie ==
    call.op = "get_tdiff" =>
        (Cardinality(Matching(td, call.args[1], call.args[2])) # 1 =>
            call.ret = <<NaN, NaN>>)

\* Two records of the band that differ and both contain the time, queried
\* without the validation requirement.
C3_Witness ==
    /\ call.op = "get_tdiff"
    /\ call.args[3] = FALSE
    /\ \E i, j \in Matching(td, call.args[1], call.args[2]) :
          i # j /\ td.stimes[i] # td.stimes[j]
    /\ call.ret = <<NaN, NaN>>

-----------------------------------------------------------------------------
(* Claims about the radar identity *)

\* The code and station ID (rad_code, stid) agree with the pair of
\* id_to_code that rad names, by its station ID or by its code in any case.
Resolved(rad, rad_code, stid) ==
    \A k \in DOMAIN id_to_code :
        (\/ rad = PyInt(k)
         \/ rad.type = "str" /\ lower(rad.val) = id_to_code[k]) =>
            rad_code = PyStr(id_to_code[k]) /\ stid = PyInt(k)

\* C11: for every (stationId, code) pair of id_to_code, a radFreqBands and a
\* radTdiff constructed with the station ID, or with the code written in any
\* letter case, have the lowercase catalog code as rad_code and the station
\* ID as stid.
C11_IdentityBijection ==
    /\ (call.op = "radFreqBands" /\ pc = "radFreqBands") =>
          Resolved(call.args[1], fb.rad_code, fb.stid)
    /\ (call.op = "radTdiff" /\ pc \in {"load_tdiff", "radTdiff"}) =>
          Resolved(call.args[1], td.rad_code, td.stid)

\* The outcome for an argument that names no radar: None gives no code and
\* no ID, a string that matches no code gives the string in lower case and
\* no ID.
Degraded(rad, rad_code, stid) ==
    /\ rad.type = "none" => rad_code = None /\ stid = None
    /\ (/\ rad.type = "str"
        /\ \A k \in DOMAIN id_to_code : id_to_code[k] # lower(rad.val)) =>
            rad_code = PyStr(lower(rad.val)) /\ stid = None

\* C12: for every argument rad (a station ID, an integer that is none, a
\* string in any case, None) neither constructor ends with the
\* AttributeError of its resolver, and a constructed instance has the
\* degraded identity when rad names no radar.
C12_ResolverNeverFails ==
    /\ call.op \in {"radFreqBands", "radTdiff"} =>
          call.exc # "AttributeError"
    /\ (call.op = "radFreqBands" /\ pc = "radFreqBands") =>
          Degraded(call.args[1], fb.rad_code, fb.stid)
    /\ (call.op = "radTdiff" /\ pc \in {"load_tdiff", "radTdiff"}) =>
          Degraded(call.args[1], td.rad_code, td.stid)

-----------------------------------------------------------------------------
(* Claims about the construction of radTdiff *)

\* The six record lists of a radTdiff are empty.
NoRecords(self) ==
    /\ self.tbands = <<>> /\ self.stimes = <<>> /\ self.etimes = <<>>
    /\ self.est_tdiffs = <<>> /\ self.tdiff_errs = <<>>
    /\ self.validated = <<>>

\* C13: no construction of radTdiff raises, whatever the radar, the file
\* path and the lines of the file (short lines, time fields that do not
\* parse, band, tdiff or error fields that are no numbers); with a file
\* path, an unknown radar or a path that is no file gives an instance
\* without records.
C13_ConstructionNeverRaises ==
    call.op = "radTdiff" =>
        /\ pc # "raised"
        /\ (/\ pc = "radTdiff"
            /\ call.args[2].type # "none"
            /\ td.stid = None \/ ~isfile(call.args[2])) => NoRecords(td)

-----------------------------------------------------------------------------
(* Claims about load_tdiff *)

\* A line without "#" that has all six columns, with times and numbers in
\* the first five.
WellFormed(fline) ==
    /\ ~fline.hash
    /\ Len(fline.fdata) = 6
    /\ \A i \in 1..5 : parses(fline.fdata[i])

\* A line without "#" that has too few columns for the tested columns.
Short(fline) ==
    ~fline.hash /\ Len(fline.fdata) <= Max(all_cols(ld.cols))

C15_NegativeColumnAborts ==
    (/\ call.op = "radTdiff"
     /\ call.args[2].type # "none"
     /\ \E col \in all_cols(call.args[3]) \cup {call.args[3].val_col} :
           col < 0) =>
        /\ pc # "load_tdiff"
        /\ NoRecords(td)

\* The truth value that the text of a validation field denotes.
Denotes(field) == field.v = "True"

\* C16: while load_tdiff reads a file of header lines, short lines and
\* well-formed lines, the validated flag of every record is the truth value
\* that the validation field of its line denotes, and get_tdiff with tval
\* true returns the estimate of no record whose field denotes false.
C16_ValidationColumnBoolean ==
    (/\ pc = "load_tdiff"
     /\ \A l \in DOMAIN ld.lines :
           \/ ld.lines[l].hash
           \/ Short(ld.lines[l])
           \/ WellFormed(ld.lines[l])) =>
        LET good == SelectSeq(ld.lines, WellFormed)
        IN  \A i \in DOMAIN good :
                LET v == Denotes(At(good[i].fdata, ld.cols.val_col))
                IN  /\ td.validated[i] = v
                    /\ ~v => \A t \in Times :
                          get_tdiff(td, td.tbands[i], t, TRUE)
                              # Estimate(td, i)

-----------------------------------------------------------------------------
(* Claims about load_hardware_tdiff *)

\* The band list that radFreqBands gives for the radar code of the instance
\* at the default time of the construction.
CurrentBands == fb_bands(td.rad_code, call.args[4]).tbands

\* C17: after a construction without a file, for a radar with B current
\* bands and R hardware revisions, each record list has B x R elements; the
\* records of revision k are one for each band in band-list order, from the
\* tval of revision k - 1 (the initial site time for the first revision) to
\* the tval of revision k, with the tdiff of revision k, error NaN and
\* validated true.
C17_LegacyDerivation ==
    (call.op = "radTdiff" /\ call.args[2] = None /\ pc = "radTdiff") =>
        LET rad_hdw == call.args[3]
            B == Len(CurrentBands)
            R == Len(rad_hdw.sites)
        IN  /\ Len(td.tbands) = B * R
            /\ Len(td.stimes) = B * R
            /\ Len(td.etimes) = B * R
            /\ Len(td.est_tdiffs) = B * R
            /\ Len(td.tdiff_errs) = B * R
            /\ Len(td.validated) = B * R
            /\ \A k \in 1..R, j \in 1..B :
                  LET p == (k - 1) * B + j
                  IN  /\ td.tbands[p] = CurrentBands[j]
                      /\ td.stimes[p] = IF k = 1 THEN rad_hdw.stTime
                                        ELSE rad_hdw.sites[k - 1].tval
                      /\ td.etimes[p] = rad_hdw.sites[k].tval
                      /\ td.est_tdiffs[p] = rad_hdw.sites[k].tdiff
                      /\ td.tdiff_errs[p] = NaN
                      /\ td.validated[p] = TRUE

\* Two revisions of a radar with fifteen bands give thirty records.
C17_Witness ==
    /\ call.op = "radTdiff" /\ call.args[2] = None /\ pc = "radTdiff"
    /\ Len(call.args[3].sites) = 2
    /\ Len(CurrentBands) = 15
    /\ Len(td.tbands) = 30
    /\ td.stimes[16] = call.args[3].sites[1].tval

\* C18: in an instance built from the hardware metadata, for every band and
\* every time at most one record satisfies startTime <= time <= endTime, and
\* get_tdiff for a band of the instance and a time from the initial site
\* time to the last tval, a revision boundary included, returns a value and
\* not (NaN, NaN).
C18_AtMostOneActive ==
    (pc = "radTdiff" /\ td.tdiff_file = None) =>
        /\ \A b \in Range(td.tbands), t \in Times :
              Cardinality(Matching(td, b, t)) <= 1
        /\ (/\ call.op = "get_tdiff"
            /\ call.args[1] \in Range(td.tbands)
            /\ Min(Range(td.stimes)) <= call.args[2]
            /\ call.args[2] <= Max(Range(td.etimes))) =>
                call.ret # <<NaN, NaN>>

-----------------------------------------------------------------------------
(* Claims about the shipped catalog *)

\* C19: for the radar of every radFreqBands instance that has an entry in
\* rad_band_num, and every version of that entry, every band number b listed
\* in the version has an entry in rad_min and in rad_max of the radar with
\* rad_min[radar][b] <= rad_max[radar][b].
C19_CatalogBandBounds ==
    (/\ pc = "radFreqBands"
     /\ fb.rad_code.type = "str"
     /\ fb.rad_code.val \in DOMAIN rad_band_num) =>
        LET c == fb.rad_code.val
        IN  \A v \in DOMAIN rad_band_num[c] :
                \A p \in DOMAIN rad_band_num[c][v] :
                    LET b == rad_band_num[c][v][p]
                    IN  /\ IndexOK(b, Len(rad_min[c]))
                        /\ IndexOK(b, Len(rad_max[c]))
                        /\ At(rad_min[c], b) <= At(rad_max[c], b)

\* C20: radFreqBands for 'han' or station ID 10 at a time in
\* [1995-01-01, 3000-01-01) has code 'han', ID 10 and the snapshot of
\* version 0: that interval, 15 bands, smallest minimum 8305 kHz and largest
\* maximum 19990 kHz; on that snapshot get_tband_max_min(13200) returns
\* (13200, 13260) and get_tband_max_min(20000) returns (-1, -1).
C20_HanScenario ==
    /\ (/\ call.op = "radFreqBands"
        /\ call.args[1] \in {PyStr(Code.han), PyInt(10)}
        /\ DtLe(<<1995, 1, 1, 0, 0, 0, 0>>, call.args[2])
        /\ DtLt(call.args[2], <<3000, 1, 1, 0, 0, 0, 0>>)) =>
            /\ pc = "radFreqBands"
            /\ fb.rad_code = PyStr(Code.han)
            /\ fb.stid = PyInt(10)
            /\ get_time_key(fb.rad_code, call.args[2]) =
                  [exc |-> "none", ret |-> 0]
            /\ fb.stime = <<1995, 1, 1, 0, 0, 0, 0>>
            /\ fb.etime = <<3000, 1, 1, 0, 0, 0, 0>>
            /\ Len(fb.tbands) = 15
            /\ Len(fb.tmins) = 15
            /\ Len(fb.tmaxs) = 15
            /\ Min(Range(fb.tmins)) = 8305
            /\ Max(Range(fb.tmaxs)) = 19990
    /\ (/\ call.op = "get_tband_max_min"
        /\ fb.rad_code = PyStr(Code.han)
        /\ fb.stime = <<1995, 1, 1, 0, 0, 0, 0>>) =>
            /\ call.args[1] = 13200 => call.ret = <<13200, 13260>>
            /\ call.args[1] = 20000 => call.ret = <<-1, -1>>

\* The han snapshot of version 0 asked for 13200 kHz.
C20_Witness ==
    /\ call.op = "get_tband_max_min"
    /\ fb.rad_code = PyStr(Code.han)
    /\ fb.stid = PyInt(10)
    /\ Len(fb.tbands) = 15
    /\ call.args[1] = 13200
    /\ call.ret = <<13200, 13260>>

-----------------------------------------------------------------------------
(* Claims about the record lists and the construction as a whole *)

\* A line that load_tdiff does not skip: no "#", enough columns, and a start
\* time and an end time that parse.
Loaded(fline) ==
    /\ ~fline.hash
    /\ ~Short(fline)
    /\ parses(At(fline.fdata, ld.cols.stime_cols[1]))
    /\ parses(At(fline.fdata, ld.cols.etime_cols[1]))

\* C21: while and after load_tdiff reads the lines of a file, the six lists
\* tbands, stimes, etimes, est_tdiffs, tdiff_errs and validated have the
\* same length, and element i of each list comes from the i-th line that was
\* not skipped; a line whose start time or end time does not parse adds to
\* no list.
C21_ParallelLists ==
    /\ pc \in {"load_tdiff", "radTdiff"} =>
          /\ Len(td.stimes) = Len(td.tbands)
          /\ Len(td.etimes) = Len(td.tbands)
          /\ Len(td.est_tdiffs) = Len(td.tbands)
          /\ Len(td.tdiff_errs) = Len(td.tbands)
          /\ Len(td.validated) = Len(td.tbands)
    /\ pc = "load_tdiff" =>
          LET good == SelectSeq(ld.lines, Loaded)
              c == ld.cols
          IN  /\ Len(td.tbands) = Len(good)
              /\ Len(td.stimes) = Len(good)
              /\ Len(td.etimes) = Len(good)
              /\ \A i \in DOMAIN good :
                    /\ td.tbands[i] = At(good[i].fdata, c.tband_col).v
                    /\ td.stimes[i] = At(good[i].fdata, c.stime_cols[1]).v
                    /\ td.etimes[i] = At(good[i].fdata, c.etime_cols[1]).v
                    /\ td.est_tdiffs[i] =
                          PyFloat(At(good[i].fdata, c.tdiff_col).v)
                    /\ td.tdiff_errs[i] =
                          PyFloat(At(good[i].fdata, c.terr_col).v)

\* C22: a construction with a file path never calls load_hardware_tdiff,
\* also when the file is missing or the radar unknown; a construction
\* without a file path never calls load_tdiff; with a file path and a
\* missing file or an unknown radar neither is called and the instance has
\* no records.
C22_ExclusiveStrategies ==
    /\ pc = "load_tdiff" => call.ran = "load_tdiff"
    /\ call.op = "radTdiff" =>
          /\ call.args[2] # None => call.ran # "load_hardware_tdiff"
          /\ call.args[2] = None => call.ran # "load_tdiff"
          /\ (/\ call.args[2] # None
              /\ pc # "raised"
              /\ td.stid = None \/ ~isfile(call.args[2])) =>
                  /\ call.ran = "none"
                  /\ pc = "radTdiff"
                  /\ NoRecords(td)

\* A construction with the file that exists for a radar code that is
\* unknown: no method is called.
C22_Witness ==
    /\ call.op = "radTdiff"
    /\ pc = "radTdiff"
    /\ call.args[1] = PyStr(<<"x", "y", "z">>)
    /\ call.args[2] # None
    /\ isfile(call.args[2])
    /\ call.ran = "none"
    /\ NoRecords(td)

\* The answer of call c is the answer of its query on the instance self (a
\* radFreqBands or a radTdiff).
Answer(c, self) ==
    /\ c.op = "get_tdiff" =>
          /\ c.exc = "none"
          /\ c.ret = get_tdiff(self, c.args[1], c.args[2], c.args[3])
    /\ c.op = "get_time_key" =>
          [exc |-> c.exc, ret |-> c.ret] =
              get_time_key(self.rad_code, c.args[1])
    /\ c.op = "get_tband_max_min" =>
          c.exc = "none" /\ c.ret = get_tband_max_min(self, c.args[1])
    /\ c.op = "get_mean_tband_freq" =>
          [exc |-> c.exc, ret |-> c.ret] =
              get_mean_tband_freq(self, c.args[1])
    /\ c.op = "get_tfreq_band_num" =>
          c.exc = "none" /\ c.ret = get_tfreq_band_num(self, c.args[1])

\* C23: every step taken on a constructed radFreqBands or radTdiff, that is
\* every query, leaves all attributes of the instance as they were, and its
\* answer is the answer of the query on the instance as it was before the
\* step, hence as it was constructed.
C23_NoMutation ==
    [][(pc = "radFreqBands" \/ pc = "radTdiff") =>
          (/\ pc' = pc
           /\ fb' = fb
           /\ td' = td
           /\ Answer(call', IF pc = "radTdiff" THEN td ELSE fb))]_vars

\* A query of a radTdiff loaded from a file returns the value of the second
\* of its two records.
C23_Witness ==
    /\ pc = "radTdiff"
    /\ call.op = "get_tdiff"
    /\ td.tdiff_file # None
    /\ Len(td.tbands) = 2
    /\ call.ret = Estimate(td, 2)

=============================================================================
